---- MODULE Spec2Model ----
(***************************************************************************)
(* A model of wasm-game-of-life: the Universe (src/src/lib.rs) with its    *)
(* bit-set grid, its two boundary policies, update(), put_pattern() and    *)
(* insert_pattern(); and the pattern parser, the rotation and the pattern  *)
(* collection of src/src/parser.rs.                                        *)
(*                                                                         *)
(* Strings are sequences of one-character strings, so that lines(),        *)
(* starts_with(), split_once() and chars() are computed as the code        *)
(* computes them.  The alphabet holds no "\r", so lines() only meets "\n". *)
(***************************************************************************)
EXTENDS Integers, Sequences, FiniteSets, TLC

VARIABLES
    width,            \* Universe.width
    height,           \* Universe.height
    cells,            \* Universe.cells: the FixedBitSet, bit index -> BOOLEAN
    wrapping,         \* Universe.wrapping
    patterns,         \* Universe.patterns / PatternCollection.patterns: name -> Pattern
    overflow_checks,  \* the build profile: TRUE panics on u32 overflow, FALSE wraps
    last,             \* the last call: its name, arguments, result and the state before it
    src_lines,        \* the lines a pattern text was written from
    text,             \* the pattern text handed to from_str
    parsed,           \* the result of from_str(text)
    original,         \* the cells of the pattern before any rotation
    pattern,          \* the pattern made of the previous rotation's output
    turns,            \* how many rotate(1) calls made `pattern` from `original`
    seed,             \* the grid as it was seeded, before any update()
    gen               \* the number of update() calls since the seed

vars == <<width, height, cells, wrapping, patterns, overflow_checks, last,
          src_lines, text, parsed, original, pattern, turns, seed, gen>>

universeVars == <<width, height, cells, wrapping, patterns, overflow_checks>>
parseVars == <<src_lines, text, parsed>>
rotateVars == <<original, pattern, turns>>
seedVars == <<seed, gen>>

(***************************************************************************)
(* Bounds of the model.                                                    *)
(***************************************************************************)
MaxDim == 3          \* widths and heights of the grids of Spec: 1..MaxDim
MaxBits == 9         \* bits of the FixedBitSet of the grids of Spec: width * height
MaxPatDim == 2       \* widths and heights of the grids of SpecPatterns
MaxRotation == 4     \* rotation arguments of put_pattern: 0..MaxRotation
MaxLines == 4        \* lines of a pattern text of SpecParse
MaxOff == 2          \* row and column offsets of the patterns of SpecRotate
MaxCells == 3        \* cells of the patterns of SpecRotate
MaxTurns == 5        \* rotate(1) calls in a row in SpecRotate
MaxBlinkerDim == 6   \* widths and heights of the grids of SpecBlinker: 5..MaxBlinkerDim
MaxBlockDim == 4     \* widths and heights of the grids of SpecBlock: 2..MaxBlockDim
MaxGen == 4          \* update() calls counted by gen

\* Option<T>
None == [some |-> FALSE]

Some(x) == [some |-> TRUE, val |-> x]

\* no call made yet
Idle == [op |-> "none", panic |-> FALSE]

(***************************************************************************)
(* u32 arithmetic.  A u32 is held as <<hi, lo>>, its two 16-bit halves, so  *)
(* that values near u32::MAX and the overflow of `row + dx` keep their      *)
(* width.  Grid coordinates and pattern offsets are small naturals.        *)
(***************************************************************************)
Half == 2^16

U32(n) == <<n \div Half, n % Half>>

U32_MAX == <<Half - 1, Half - 1>>

\* a + n for a u32 a and a small natural n: the wrapped sum and whether it overflowed
U32Add(a, n) ==
    LET lo == a[2] + n
        hi == a[1] + (lo \div Half)
    IN  [val |-> <<hi % Half, lo % Half>>, overflow |-> hi >= Half]

\* a < n for a u32 a and a small natural n
U32Less(a, n) == a[1] = 0 /\ a[2] < n

\* a % m for a u32 a and a small natural m > 0
U32Mod(a, m) == ((a[1] % m) * (Half % m) + (a[2] % m)) % m

(***************************************************************************)
(* src/src/parser.rs: the parser.                                          *)
(***************************************************************************)
ALIVE_CHAR == "O"

ParseError == [ok |-> FALSE, err |-> "ParseError"]

Ok(p) == [ok |-> TRUE, val |-> p]

NameMarker == <<"!", "N", "a", "m", "e", ":">>

Bang == <<"!">>

Separator == <<":", " ">>

starts_with(line, prefix) ==
    /\ Len(line) >= Len(prefix)
    /\ SubSeq(line, 1, Len(prefix)) = prefix

\* the least element of a non-empty set of indices
First(S) == CHOOSE i \in S : \A j \in S : i <= j

\* the least index of s at which pat starts, or 0
Find(s, pat) ==
    LET at == {i \in 1..(Len(s) - Len(pat) + 1) : SubSeq(s, i, i + Len(pat) - 1) = pat}
    IN  IF at = {} THEN 0 ELSE First(at)

\* str::lines(): split at "\n"; a final line ending yields no empty last line
RECURSIVE lines(_)
lines(s) ==
    IF Len(s) = 0 THEN <<>>
    ELSE LET k == Find(s, <<"\n">>)
         IN  IF k = 0 THEN <<s>>
             ELSE <<SubSeq(s, 1, k - 1)>> \o lines(SubSeq(s, k + 1, Len(s)))

\* str::split_once(": "): the parts before and after the first separator, or None
split_once(line, sep) ==
    LET k == Find(line, sep)
    IN  IF k = 0 THEN None
        ELSE Some(<<SubSeq(line, 1, k - 1), SubSeq(line, k + Len(sep), Len(line))>>)

\* lines.skip_while(|line| !line.starts_with("!Name:")): what is left from the header on
skip_to_header(ls) ==
    LET stop == {i \in 1..Len(ls) : starts_with(ls[i], NameMarker)}
    IN  IF stop = {} THEN <<>> ELSE SubSeq(ls, First(stop), Len(ls))

\* lines.skip_while(|line| line.starts_with("!")): what is left from the first other line on
skip_comments(ls) ==
    LET stop == {i \in 1..Len(ls) : ~starts_with(ls[i], Bang)}
    IN  IF stop = {} THEN <<>> ELSE SubSeq(ls, First(stop), Len(ls))

\* line.chars().enumerate().filter_map(...): the (row, col) of each ALIVE_CHAR, in order
RowCells(row, line) ==
    IF Len(line) = 0 THEN <<>>
    ELSE SelectSeq([c \in 1..Len(line) |-> <<row, c - 1>>],
                   LAMBDA rc : line[rc[2] + 1] = ALIVE_CHAR)

\* lines.enumerate().flat_map(...).collect(), from line number `row` on
RECURSIVE GridCells(_, _)
GridCells(ls, row) ==
    IF Len(ls) = 0 THEN <<>>
    ELSE RowCells(row, Head(ls)) \o GridCells(Tail(ls), row + 1)

from_str_all_comments_skipped(s) ==
    LET ls == skip_to_header(lines(s))
    IN  IF Len(ls) = 0 THEN ParseError
        ELSE LET parts == split_once(Head(ls), Separator)
             IN  IF ~parts.some THEN ParseError
                 ELSE Ok([name |-> parts.val[2],
                          cells |-> GridCells(SelectSeq(Tail(ls),
                                        LAMBDA line : ~starts_with(line, Bang)), 0)])

from_str_no_comment_skipped(s) ==
    LET ls == skip_to_header(lines(s))
    IN  IF Len(ls) = 0 THEN ParseError
        ELSE LET parts == split_once(Head(ls), Separator)
             IN  IF ~parts.some THEN ParseError
                 ELSE Ok([name |-> parts.val[2], cells |-> GridCells(Tail(ls), 0)])

\* <Pattern as FromStr>::from_str
from_str(s) ==
    LET ls == skip_to_header(lines(s))
    IN  IF Len(ls) = 0 THEN ParseError
        ELSE LET parts == split_once(Head(ls), Separator)
             IN  IF ~parts.some THEN ParseError
                 ELSE LET grid == skip_comments(Tail(ls))
                      IN  Ok([name |-> parts.val[2], cells |-> GridCells(grid, 0)])

(***************************************************************************)
(* src/src/parser.rs: the rotation.                                        *)
(***************************************************************************)
Max(S) == CHOOSE m \in S : \A x \in S : x <= m

rotate_by_wrong_extent(cs, count) ==
    IF Len(cs) = 0 THEN cs
    ELSE LET max_x == Max({cs[i][1] : i \in 1..Len(cs)})
             max_y == Max({cs[i][2] : i \in 1..Len(cs)})
         IN  CASE count % 4 = 0 -> cs
               [] count % 4 = 1 -> [i \in 1..Len(cs) |-> <<cs[i][2], max_y - cs[i][1]>>]
               [] count % 4 = 2 -> [i \in 1..Len(cs) |-> <<max_x - cs[i][1], max_y - cs[i][2]>>]
               [] count % 4 = 3 -> [i \in 1..Len(cs) |-> <<max_x - cs[i][2], cs[i][1]>>]

\* Pattern::rotate, on the cells of the pattern
rotate(cs, count) ==
    IF Len(cs) = 0 THEN cs
    ELSE LET max_x == Max({cs[i][1] : i \in 1..Len(cs)})
             max_y == Max({cs[i][2] : i \in 1..Len(cs)})
         IN  CASE count % 4 = 0 -> cs
               [] count % 4 = 1 -> [i \in 1..Len(cs) |-> <<cs[i][2], max_x - cs[i][1]>>]
               [] count % 4 = 2 -> [i \in 1..Len(cs) |-> <<max_x - cs[i][1], max_y - cs[i][2]>>]
               [] count % 4 = 3 -> [i \in 1..Len(cs) |-> <<max_y - cs[i][2], cs[i][1]>>]

(***************************************************************************)
(* src/src/parser.rs: the pattern collection, a HashMap<String, Pattern>    *)
(* held as the set of its entries [key, value].                            *)
(***************************************************************************)
PatternCollection_new == {}

Keys(pats) == {e.key : e \in pats}

\* PatternCollection::get: HashMap::get(name)
get(pats, name) ==
    IF \E e \in pats : e.key = name
    THEN Some((CHOOSE e \in pats : e.key = name).value)
    ELSE None

insert_keeps_old_entry(pats, p) ==
    [ret |-> get(pats, p.name),
     patterns |-> pats \cup {[key |-> p.name, value |-> p]}]

\* PatternCollection::insert: HashMap::insert(pattern.name.clone(), pattern),
\* the value returned and the entries afterwards
insert(pats, p) ==
    [ret |-> get(pats, p.name),
     patterns |-> {e \in pats : e.key # p.name} \cup {[key |-> p.name, value |-> p]}]

(***************************************************************************)
(* src/src/lib.rs: the Universe.                                           *)
(***************************************************************************)
\* FixedBitSet::with_capacity(size): all bits clear
with_capacity(size) == [i \in 0..(size - 1) |-> FALSE]

get_index(w, row, column) == row * w + column

live_neighbor_count_never_wraps(cs, w, h, wrap, row, column) ==
    Cardinality({d \in {-1, 0, 1} \X {-1, 0, 1} :
        /\ ~(d[1] = 0 /\ d[2] = 0)
        /\ ~(row + d[1] < 0 \/ row + d[1] >= h \/ column + d[2] < 0 \/ column + d[2] >= w)
        /\ cs[get_index(w, row + d[1], column + d[2])]})

live_neighbor_count_always_wraps(cs, w, h, wrap, row, column) ==
    LET delta_rows == <<h - 1, 0, 1>>
        delta_cols == <<w - 1, 0, 1>>
    IN  Cardinality({ij \in (1..3) \X (1..3) :
            /\ ~(delta_rows[ij[1]] = 0 /\ delta_cols[ij[2]] = 0)
            /\ cs[get_index(w, (row + delta_rows[ij[1]]) % h,
                               (column + delta_cols[ij[2]]) % w)]})

\* Universe::live_neighbor_count: one unit per array position (i, j) of the two
\* delta arrays that is not skipped and whose neighbour bit is set
live_neighbor_count(cs, w, h, wrap, row, column) ==
    IF wrap
    THEN LET delta_rows == <<h - 1, 0, 1>>
             delta_cols == <<w - 1, 0, 1>>
         IN  Cardinality({ij \in (1..3) \X (1..3) :
                 /\ ~(delta_rows[ij[1]] = 0 /\ delta_cols[ij[2]] = 0)
                 /\ cs[get_index(w, (row + delta_rows[ij[1]]) % h,
                                    (column + delta_cols[ij[2]]) % w)]})
    ELSE LET deltas == <<-1, 0, 1>>
         IN  Cardinality({ij \in (1..3) \X (1..3) :
                 /\ ~(deltas[ij[1]] = 0 /\ deltas[ij[2]] = 0)
                 /\ ~(\/ row + deltas[ij[1]] < 0
                      \/ row + deltas[ij[1]] >= h
                      \/ column + deltas[ij[2]] < 0
                      \/ column + deltas[ij[2]] >= w)
                 /\ cs[get_index(w, row + deltas[ij[1]], column + deltas[ij[2]])]})

\* the match of update(): the next value of a cell
next_cell(cell, live_neighbors) ==
    CASE cell /\ live_neighbors < 2 -> FALSE
      [] cell /\ live_neighbors \in {2, 3} -> TRUE
      [] cell /\ live_neighbors > 3 -> FALSE
      [] ~cell /\ live_neighbors = 3 -> TRUE
      [] OTHER -> cell

RECURSIVE update_loop_in_place(_, _, _, _, _)
update_loop_in_place(next, w, h, wrap, i) ==
    IF i >= w * h THEN next
    ELSE LET row == i \div w
             col == i % w
             idx == get_index(w, row, col)
             cell == next[idx]
             live_neighbors == live_neighbor_count(next, w, h, wrap, row, col)
         IN  update_loop_in_place([next EXCEPT ![idx] = next_cell(cell, live_neighbors)],
                                  w, h, wrap, i + 1)

update_in_place(cs, w, h, wrap) == update_loop_in_place(cs, w, h, wrap, 0)

\* the two loops of update(), from cell i = row * width + col on: every cell and its
\* neighbours are read from self.cells (cs), the new value is written to next
RECURSIVE update_loop(_, _, _, _, _, _)
update_loop(cs, next, w, h, wrap, i) ==
    IF i >= w * h THEN next
    ELSE LET row == i \div w
             col == i % w
             idx == get_index(w, row, col)
             cell == cs[idx]
             live_neighbors == live_neighbor_count(cs, w, h, wrap, row, col)
         IN  update_loop(cs, [next EXCEPT ![idx] = next_cell(cell, live_neighbors)],
                         w, h, wrap, i + 1)

\* Universe::update: next = self.cells.clone(); the loops; self.cells = next
update(cs, w, h, wrap) == update_loop(cs, cs, w, h, wrap, 0)

\* Universe::put_cells, offset by offset: the bit set afterwards, and whether
\* `row + dx` or `column + dy` panicked (overflow checks on) before the end
RECURSIVE put_cells(_, _, _, _, _, _, _, _)
put_cells(cs, w, h, wrap, checks, row, column, offs) ==
    IF Len(offs) = 0 THEN [cells |-> cs, panic |-> FALSE]
    ELSE LET dx == U32Add(row, Head(offs)[1])
             dy == U32Add(column, Head(offs)[2])
         IN  IF checks /\ (dx.overflow \/ dy.overflow)
             THEN [cells |-> cs, panic |-> TRUE]
             ELSE IF wrap
             THEN put_cells([cs EXCEPT ![get_index(w, U32Mod(dx.val, h), U32Mod(dy.val, w))] = TRUE],
                            w, h, wrap, checks, row, column, Tail(offs))
             ELSE IF U32Less(dx.val, h) /\ U32Less(dy.val, w)
             THEN put_cells([cs EXCEPT ![get_index(w, dx.val[2], dy.val[2])] = TRUE],
                            w, h, wrap, checks, row, column, Tail(offs))
             ELSE put_cells(cs, w, h, wrap, checks, row, column, Tail(offs))

\* Universe::put_pattern: nothing for a name that is not registered
put_pattern(cs, w, h, wrap, checks, pats, row, column, name, rotation) ==
    LET found == get(pats, name)
    IN  IF found.some
        THEN put_cells(cs, w, h, wrap, checks, row, column, rotate(found.val.cells, rotation))
        ELSE [cells |-> cs, panic |-> FALSE]

\* Universe::insert_pattern: string.parse().expect(..) panics on Err(ParseError)
insert_pattern(pats, string) ==
    LET r == from_str(string)
    IN  IF r.ok
        THEN [panic |-> FALSE, ret |-> r.val.name, patterns |-> insert(pats, r.val).patterns]
        ELSE [panic |-> TRUE, ret |-> "panic", patterns |-> pats]

(***************************************************************************)
(* The calls on a Universe.  A call that panicked trapped the instance:    *)
(* nothing is called after it.                                             *)
(***************************************************************************)
Cells == 0..(width * height - 1)

\* Universe::new(w, h), with the build profile of the crate
New(w, h) ==
    /\ width = w
    /\ height = h
    /\ cells = with_capacity(w * h)
    /\ patterns = PatternCollection_new
    /\ wrapping = FALSE
    /\ last = Idle

SetWrapping(b) ==
    /\ ~last.panic
    /\ wrapping' = b
    /\ last' = [op |-> "set_wrapping", panic |-> FALSE]
    /\ UNCHANGED <<width, height, cells, patterns, overflow_checks>>
    /\ UNCHANGED <<parseVars, rotateVars, seedVars>>

\* Universe::randomize: every bit set to random() < 0.5
Randomize ==
    /\ ~last.panic
    /\ cells' \in [Cells -> BOOLEAN]
    /\ last' = [op |-> "randomize", panic |-> FALSE]
    /\ UNCHANGED <<width, height, wrapping, patterns, overflow_checks>>
    /\ UNCHANGED <<parseVars, rotateVars, seedVars>>

Clear ==
    /\ ~last.panic
    /\ cells' = [i \in Cells |-> FALSE]
    /\ last' = [op |-> "clear", panic |-> FALSE]
    /\ UNCHANGED <<width, height, wrapping, patterns, overflow_checks>>
    /\ UNCHANGED <<parseVars, rotateVars, seedVars>>

UpdateCall ==
    /\ ~last.panic
    /\ cells' = update(cells, width, height, wrapping)
    /\ last' = [op |-> "update", panic |-> FALSE, pre |-> cells]
    /\ UNCHANGED <<width, height, wrapping, patterns, overflow_checks>>
    /\ UNCHANGED <<parseVars, rotateVars>>

Update ==
    /\ UpdateCall
    /\ UNCHANGED seedVars

\* update() on a seeded grid, the calls counted up to MaxGen
UpdateSeeded ==
    /\ gen < MaxGen
    /\ UpdateCall
    /\ gen' = gen + 1
    /\ UNCHANGED seed

PutPattern(row, column, name, rotation) ==
    /\ ~last.panic
    /\ LET r == put_pattern(cells, width, height, wrapping, overflow_checks, patterns,
                            row, column, name, rotation)
       IN  /\ cells' = r.cells
           /\ last' = [op |-> "put_pattern", panic |-> r.panic,
                       row |-> row, column |-> column, name |-> name, rotation |-> rotation]
    /\ UNCHANGED <<width, height, wrapping, patterns, overflow_checks>>
    /\ UNCHANGED <<parseVars, rotateVars, seedVars>>

\* insert_pattern(string), the string being the lines src joined by "\n"
InsertPattern(src, string) ==
    /\ ~last.panic
    /\ LET r == insert_pattern(patterns, string)
       IN  /\ patterns' = r.patterns
           /\ last' = [op |-> "insert_pattern", panic |-> r.panic, src |-> src,
                       outcome |-> IF r.panic THEN "panicked" ELSE "returned the name",
                       ret |-> IF r.panic THEN None ELSE Some(r.ret),
                       pre |-> [cells |-> cells, wrapping |-> wrapping, patterns |-> patterns]]
    /\ UNCHANGED <<width, height, cells, wrapping, overflow_checks>>
    /\ UNCHANGED <<parseVars, rotateVars, seedVars>>

(***************************************************************************)
(* Pattern texts.                                                          *)
(***************************************************************************)
RECURSIVE Join(_)
Join(ls) ==
    IF Len(ls) = 0 THEN <<>>
    ELSE IF Len(ls) = 1 THEN Head(ls)
    ELSE Head(ls) \o <<"\n">> \o Join(Tail(ls))

HeaderA == <<"!", "N", "a", "m", "e", ":", " ", "a">>
HeaderB == <<"!", "N", "a", "m", "e", ":", " ", "b", ":", " ", "c">>
HeaderNoSeparator == <<"!", "N", "a", "m", "e", ":", "a">>
CommentO == <<"!", "O">>

\* an L of three cells; a text with no header; a text whose header has no ": "
PatternSources ==
    { <<HeaderA, <<"O", "O">>, <<"O">>>>,
      <<CommentO, <<"O", "O">>>>,
      <<HeaderNoSeparator, <<"O">>>> }

NameA == <<"a">>
NameBC == <<"b", ":", " ", "c">>
NameZ == <<"z">>

\* the names handed to put_pattern: one that insert_pattern can register, one it cannot
PlacedNames == {NameA, NameZ}

\* rows and columns handed to put_pattern: those of the largest grid, and u32::MAX
Coordinates == {U32(n) : n \in 0..(MaxPatDim - 1)} \cup {U32_MAX}

(***************************************************************************)
(* Spec: update() and the boundary policies on every grid of up to MaxDim  *)
(* by MaxDim cells and MaxBits bits.  randomize() makes every grid         *)
(* reachable from new() (it is an action of SpecPatterns), so the grids    *)
(* are drawn at once.  No sum of update() nears u32::MAX on these grids.   *)
(***************************************************************************)
Init ==
    /\ width \in 1..MaxDim
    /\ height \in 1..MaxDim
    /\ width * height <= MaxBits
    /\ cells \in [Cells -> BOOLEAN]
    /\ wrapping \in BOOLEAN
    /\ patterns = PatternCollection_new
    /\ overflow_checks = FALSE
    /\ last = Idle
    /\ src_lines = <<>> /\ text = <<>> /\ parsed = None
    /\ original = <<>> /\ pattern = <<>> /\ turns = 0
    /\ seed = <<>> /\ gen = 0

Next ==
    \/ \E b \in BOOLEAN : SetWrapping(b)
    \/ Clear
    \/ Update

Spec == Init /\ [][Next]_vars

(***************************************************************************)
(* SpecPatterns: a Universe from new() on, with its pattern registry.      *)
(***************************************************************************)
InitPatterns ==
    /\ \E w \in 1..MaxPatDim, h \in 1..MaxPatDim : New(w, h)
    /\ overflow_checks \in BOOLEAN
    /\ src_lines = <<>> /\ text = <<>> /\ parsed = None
    /\ original = <<>> /\ pattern = <<>> /\ turns = 0
    /\ seed = <<>> /\ gen = 0

NextPatterns ==
    \/ \E b \in BOOLEAN : SetWrapping(b)
    \/ Randomize
    \/ Clear
    \/ Update
    \/ \E src \in PatternSources : InsertPattern(src, Join(src))
    \/ \E row \in Coordinates, column \in Coordinates, name \in PlacedNames,
          rotation \in 0..MaxRotation : PutPattern(row, column, name, rotation)

SpecPatterns == InitPatterns /\ [][NextPatterns]_vars

(***************************************************************************)
(* SpecRegistry: a PatternCollection on its own, insert and get called     *)
(* with any of a few patterns and names.  `inserted` of last holds the     *)
(* names insert was ever called with.                                      *)
(***************************************************************************)
CellLists == { <<>>, <<<<0, 0>>>>, <<<<0, 1>>, <<1, 0>>>> }

PatternNames == {NameA, NameBC, NameZ}

Patterns == [name : PatternNames, cells : CellLists]

RegistryInsert(p) ==
    /\ LET r == insert(patterns, p)
       IN  /\ patterns' = r.patterns
           /\ last' = [op |-> "insert", panic |-> FALSE, arg |-> p, ret |-> r.ret,
                       pre |-> patterns, inserted |-> last.inserted \cup {p.name}]
    /\ UNCHANGED <<width, height, cells, wrapping, overflow_checks>>
    /\ UNCHANGED <<parseVars, rotateVars, seedVars>>

RegistryGet(name) ==
    /\ last' = [op |-> "get", panic |-> FALSE, arg |-> name, ret |-> get(patterns, name),
                pre |-> patterns, inserted |-> last.inserted]
    /\ UNCHANGED universeVars
    /\ UNCHANGED <<parseVars, rotateVars, seedVars>>

InitRegistry ==
    /\ width = 1 /\ height = 1 /\ cells = with_capacity(1) /\ wrapping = FALSE
    /\ overflow_checks = FALSE
    /\ patterns = PatternCollection_new
    /\ last = [op |-> "none", panic |-> FALSE, inserted |-> {}]
    /\ src_lines = <<>> /\ text = <<>> /\ parsed = None
    /\ original = <<>> /\ pattern = <<>> /\ turns = 0
    /\ seed = <<>> /\ gen = 0

NextRegistry ==
    \/ \E p \in Patterns : RegistryInsert(p)
    \/ \E name \in PatternNames : RegistryGet(name)

SpecRegistry == InitRegistry /\ [][NextRegistry]_vars

(***************************************************************************)
(* SpecParse: from_str on every text of up to MaxLines lines of LinePool.  *)
(***************************************************************************)
LinePool ==
    { HeaderA, HeaderB, HeaderNoSeparator, CommentO,
      <<"O">>, <<".", "O">>, <<"O", ".", "O">>, <<>> }

Parse ==
    /\ ~parsed.some
    /\ parsed' = Some(from_str(text))
    /\ UNCHANGED <<src_lines, text>>
    /\ UNCHANGED <<universeVars, last, rotateVars, seedVars>>

InitParse ==
    /\ width = 1 /\ height = 1 /\ cells = with_capacity(1) /\ wrapping = FALSE
    /\ overflow_checks = FALSE
    /\ patterns = PatternCollection_new
    /\ last = Idle
    /\ src_lines \in UNION {[1..n -> LinePool] : n \in 0..MaxLines}
    /\ text = Join(src_lines)
    /\ parsed = None
    /\ original = <<>> /\ pattern = <<>> /\ turns = 0
    /\ seed = <<>> /\ gen = 0

NextParse == Parse

SpecParse == InitParse /\ [][NextParse]_vars

(***************************************************************************)
(* SpecRotate: rotate called in succession, each call on the pattern made  *)
(* of the previous call's output.  turns counts the calls while each was   *)
(* rotate(1), and is -1 once a call had another count.                     *)
(***************************************************************************)
Offsets == (0..MaxOff) \X (0..MaxOff)

RowMajorLess(a, b) == a[1] < b[1] \/ (a[1] = b[1] /\ a[2] < b[2])

\* the cell lists from_str can produce: distinct offsets in row-major order
ParsedCellLists ==
    {cs \in UNION {[1..n -> Offsets] : n \in 0..MaxCells} :
        \A i \in 1..(Len(cs) - 1) : RowMajorLess(cs[i], cs[i + 1])}

Rotate(count) ==
    /\ turns \in 0..(MaxTurns - 1)
    /\ pattern' = rotate(pattern, count)
    /\ turns' = IF count = 1 THEN turns + 1 ELSE -1
    /\ UNCHANGED original
    /\ UNCHANGED <<universeVars, last, parseVars, seedVars>>

InitRotate ==
    /\ width = 1 /\ height = 1 /\ cells = with_capacity(1) /\ wrapping = FALSE
    /\ overflow_checks = FALSE
    /\ patterns = PatternCollection_new
    /\ last = Idle
    /\ src_lines = <<>> /\ text = <<>> /\ parsed = None
    /\ original \in ParsedCellLists
    /\ pattern = original
    /\ turns = 0
    /\ seed = <<>> /\ gen = 0

NextRotate == \E count \in 0..MaxRotation : Rotate(count)

SpecRotate == InitRotate /\ [][NextRotate]_vars

(***************************************************************************)
(* SpecBlinker and SpecBlock: update() called again and again on a seeded  *)
(* grid: three cells in a line on a wrapping grid, a 2 x 2 block on a      *)
(* bounded one.                                                            *)
(***************************************************************************)
\* the bit set of a w x h grid whose live cells are the (row, col) pairs of S
Grid(w, h, S) == [i \in 0..(w * h - 1) |-> <<i \div w, i % w>> \in S]

\* three consecutive cells from (r, c) on, along the row or along the column, wrapped
Line(w, h, r, c, horizontal) ==
    IF horizontal THEN {<<r, (c + k) % w>> : k \in 0..2}
    ELSE {<<(r + k) % h, c>> : k \in 0..2}

Block(r, c) == {<<r, c>>, <<r, c + 1>>, <<r + 1, c>>, <<r + 1, c + 1>>}

InitSeeded ==
    /\ patterns = PatternCollection_new
    /\ overflow_checks = FALSE
    /\ last = Idle
    /\ src_lines = <<>> /\ text = <<>> /\ parsed = None
    /\ original = <<>> /\ pattern = <<>> /\ turns = 0
    /\ seed = cells
    /\ gen = 0

InitBlinker ==
    /\ width \in 5..MaxBlinkerDim
    /\ height \in 5..MaxBlinkerDim
    /\ wrapping = TRUE
    /\ \E r \in 0..(height - 1), c \in 0..(width - 1), horizontal \in BOOLEAN :
           cells = Grid(width, height, Line(width, height, r, c, horizontal))
    /\ InitSeeded

NextBlinker == UpdateSeeded

SpecBlinker == InitBlinker /\ [][NextBlinker]_vars

InitBlock ==
    /\ width \in 2..MaxBlockDim
    /\ height \in 2..MaxBlockDim
    /\ wrapping = FALSE
    /\ \E r \in 0..(height - 2), c \in 0..(width - 2) :
           cells = Grid(width, height, Block(r, c))
    /\ InitSeeded

NextBlock == UpdateSeeded

SpecBlock == InitBlock /\ [][NextBlock]_vars

(***************************************************************************)
(* The claims.                                                             *)
(***************************************************************************)
Rows == 0..(height - 1)
Cols == 0..(width - 1)

Range(f) == {f[i] : i \in DOMAIN f}

\* C1: after update() a cell is alive iff, in the grid before the call, it was alive
\* with 2 or 3 live neighbours or dead with exactly 3; every count is taken from the
\* grid before the call, under either boundary policy.
C1_UpdateIsSimultaneous ==
    last.op = "update" =>
        \A r \in Rows, c \in Cols :
            LET i == r * width + c
                n == live_neighbor_count(last.pre, width, height, wrapping, r, c)
            IN  cells[i] <=> ((last.pre[i] /\ n \in {2, 3}) \/ (~last.pre[i] /\ n = 3))

\* update() has acted on a grid that a single in-place pass would have taken elsewhere
C1_Witness ==
    /\ last.op = "update"
    /\ cells # last.pre
    /\ cells # update_in_place(last.pre, width, height, wrapping)
    /\ \E i \in Cells : last.pre[i] /\ cells[i]
    /\ \E i \in Cells : last.pre[i] /\ ~cells[i]
    /\ \E i \in Cells : ~last.pre[i] /\ cells[i]

MooreOffsets == ({-1, 0, 1} \X {-1, 0, 1}) \ {<<0, 0>>}

\* C2: under the wrapping policy, on every grid of width >= 1 and height >= 1,
\* live_neighbor_count(row, col) is the number of the eight Moore offsets whose target
\* ((row + dr) mod height, (col + dc) mod width) is alive, each offset counted
\* separately, and lies in 0..8.
C2_WrappingCountsEightOffsets ==
    wrapping =>
        \A r \in Rows, c \in Cols :
            LET n == live_neighbor_count(cells, width, height, wrapping, r, c)
            IN  /\ n \in 0..8
                /\ n = Cardinality({d \in MooreOffsets :
                           cells[((r + d[1] + height) % height) * width
                                 + ((c + d[2] + width) % width)]})

\* the u32 coordinate plus the offset d is the in-grid coordinate target
Lands(coordinate, d, target) == coordinate[1] = 0 /\ coordinate[2] + d = target

\* C3: under the bounded policy put_pattern with a registered name never faults, and
\* afterwards a cell (r, c) is alive iff it was alive before or (r, c) is
\* (row + dr, column + dc) for an offset of the rotated pattern; offsets that land
\* outside the grid change no cell; width, height, wrapping and the registry stay.
C3_BoundedPutPattern ==
    [][(/\ last'.op = "put_pattern"
        /\ last' # last
        /\ ~wrapping
        /\ last'.name \in Keys(patterns))
       => LET offs == rotate(get(patterns, last'.name).val.cells, last'.rotation)
          IN  /\ ~last'.panic
              /\ \A r \in Rows, c \in Cols :
                     cells'[r * width + c] <=>
                         \/ cells[r * width + c]
                         \/ \E k \in 1..Len(offs) :
                                /\ Lands(last'.row, offs[k][1], r)
                                /\ Lands(last'.column, offs[k][2], c)
              /\ width' = width /\ height' = height
              /\ wrapping' = wrapping /\ patterns' = patterns]_vars

IsHeader(line) == Len(line) >= 6 /\ SubSeq(line, 1, 6) = <<"!", "N", "a", "m", "e", ":">>

IsComment(line) == Len(line) >= 1 /\ line[1] = "!"

HasSeparator(line) == \E k \in 1..(Len(line) - 1) : line[k] = ":" /\ line[k + 1] = " "

\* no line starts with "!Name:", or the first that does has no ": "
BadSource(ls) ==
    \/ \A i \in 1..Len(ls) : ~IsHeader(ls[i])
    \/ \E i \in 1..Len(ls) :
           /\ IsHeader(ls[i])
           /\ \A j \in 1..(i - 1) : ~IsHeader(ls[j])
           /\ ~HasSeparator(ls[i])

\* C4: insert_pattern called with a text that has no "!Name:" line, or whose header
\* has no ": ", returns ParseError to its caller without aborting, and leaves the
\* registry and the grid as they were.
C4_ParseErrorReturned ==
    (last.op = "insert_pattern" /\ BadSource(last.src)) =>
        /\ ~last.panic
        /\ last.outcome = "returned ParseError"
        /\ patterns = last.pre.patterns
        /\ cells = last.pre.cells

\* C5, as claimed: four rotate(1) calls in succession return exactly the original
\* set of offsets, for every pattern.
C5_FourQuarterTurnsIdentity ==
    turns = 4 => Range(pattern) = Range(original)

MinRow(cs) == CHOOSE m \in {c[1] : c \in Range(cs)} : \A c \in Range(cs) : m <= c[1]

MinCol(cs) == CHOOSE m \in {c[2] : c \in Range(cs)} : \A c \in Range(cs) : m <= c[2]

\* C5, amended: four rotate(1) calls in succession return the original set of offsets
\* moved so that its smallest row offset and its smallest column offset are 0; that
\* is the original set exactly when both are 0 already, or the pattern is empty.
C5_FourQuarterTurnsNormalize ==
    turns = 4 =>
        /\ Range(pattern) =
               IF Len(original) = 0 THEN {}
               ELSE {<<c[1] - MinRow(original), c[2] - MinCol(original)>> : c \in Range(original)}
        /\ (Range(pattern) = Range(original)) <=>
               (Len(original) = 0 \/ (MinRow(original) = 0 /\ MinCol(original) = 0))

\* four quarter-turns of a pattern that is not square and starts off the origin
C5_Witness ==
    /\ turns = 4
    /\ Len(original) = 3
    /\ MinRow(original) > 0
    /\ \E c \in Range(original) : c[2] = MinCol(original) + 2
    /\ \A c \in Range(original) : c[1] = MinRow(original)
    /\ Range(pattern) # Range(original)

\* the lines of src_lines after the header, the first line that starts with "!Name:"
HeaderAt(ls) == CHOOSE i \in 1..Len(ls) : IsHeader(ls[i]) /\ \A j \in 1..(i - 1) : ~IsHeader(ls[j])

AliveAt(ls, i) == {c \in 1..Len(ls[i]) : ls[i][c] = "O"}

\* C6, as claimed: every line after the header that starts with "!" is skipped
\* wherever it occurs: it yields no offset and takes no row index.
C6_EveryCommentSkipped ==
    (parsed.some /\ parsed.val.ok) =>
        LET ls == src_lines
            grid == {i \in (HeaderAt(ls) + 1)..Len(ls) : ~IsComment(ls[i])}
        IN  Range(parsed.val.val.cells) =
                UNION {{<<Cardinality({j \in grid : j < i}), c - 1>> : c \in AliveAt(ls, i)} :
                       i \in grid}

\* the first line after the header that does not start with "!", or 0
GridAt(ls) ==
    LET S == {i \in (HeaderAt(ls) + 1)..Len(ls) : ~IsComment(ls[i])}
    IN  IF S = {} THEN 0 ELSE CHOOSE i \in S : \A j \in S : i <= j

\* C6, amended: the lines starting with "!" between the header and the first line
\* that does not start with "!" are skipped; from that line on every line is a row of
\* the cell grid, a line starting with "!" too: it takes a row index and each 'O' in
\* it yields an offset.
C6_LeadingCommentsSkipped ==
    (parsed.some /\ parsed.val.ok) =>
        LET ls == src_lines
            g == GridAt(ls)
        IN  Range(parsed.val.val.cells) =
                IF g = 0 THEN {}
                ELSE UNION {{<<i - g, c - 1>> : c \in AliveAt(ls, i)} : i \in g..Len(ls)}

\* a text parsed whose header is followed by a "!" line holding an 'O', which is
\* skipped, and that holds another such line after a cell line, which is a row
C6_Witness ==
    /\ parsed.some /\ parsed.val.ok
    /\ Len(src_lines) = 4
    /\ IsHeader(src_lines[1])
    /\ src_lines[2] = <<"!", "O">>
    /\ src_lines[3] = <<".", "O">>
    /\ src_lines[4] = <<"!", "O">>
    /\ parsed.val.val.cells = <<<<0, 1>>, <<1, 1>>>>

\* a header "!Name: <name>", then lines starting with "!", then lines that do not
WellFormed(ls) ==
    /\ Len(ls) >= 1
    /\ Len(ls[1]) >= 7
    /\ SubSeq(ls[1], 1, 7) = <<"!", "N", "a", "m", "e", ":", " ">>
    /\ \E k \in 1..Len(ls) :
           /\ \A i \in 2..k : IsComment(ls[i])
           /\ \A i \in (k + 1)..Len(ls) : ~IsComment(ls[i])

\* C7: for a header line "!Name: <name>", then lines starting with "!", then cell
\* lines, parse succeeds, the name is the header text after the first ": ", and the
\* offsets are exactly the (row, column) of each 'O' of the cell lines, in row-major
\* order, with no duplicates.
C7_ParseWellFormed ==
    (parsed.some /\ WellFormed(src_lines)) =>
        LET ls == src_lines
            head == ls[1]
            sep == CHOOSE k \in 1..(Len(head) - 1) :
                       /\ head[k] = ":" /\ head[k + 1] = " "
                       /\ \A j \in 1..(k - 1) : ~(head[j] = ":" /\ head[j + 1] = " ")
            first == CHOOSE k \in 1..(Len(ls) + 1) :
                       /\ \A i \in 2..(k - 1) : IsComment(ls[i])
                       /\ \A i \in k..Len(ls) : ~IsComment(ls[i])
                       /\ k >= 2
            alive == UNION {{<<i - first, c - 1>> : c \in AliveAt(ls, i)} : i \in first..Len(ls)}
            got == parsed.val
        IN  /\ got.ok
            /\ got.val.name = SubSeq(head, sep + 2, Len(head))
            /\ Len(got.val.cells) = Cardinality(alive)
            /\ Range(got.val.cells) = alive
            /\ \A i \in 1..(Len(got.val.cells) - 1) :
                   RowMajorLess(got.val.cells[i], got.val.cells[i + 1])

\* a well-formed text parsed: a name holding ": ", a comment, ragged cell lines
C7_Witness ==
    /\ parsed.some /\ parsed.val.ok
    /\ WellFormed(src_lines)
    /\ src_lines = <<HeaderB, CommentO, <<".", "O">>, <<"O", ".", "O">>>>
    /\ parsed.val.val.name = NameBC
    /\ parsed.val.val.cells = <<<<0, 1>>, <<1, 0>>, <<1, 2>>>>

\* the seed of SpecBlinker: a line of three from (r, c), and the line across its middle
IsLine(r, c, horizontal) == seed = Grid(width, height, Line(width, height, r, c, horizontal))

Across(r, c, horizontal) ==
    IF horizontal
    THEN Grid(width, height,
              Line(width, height, (r + height - 1) % height, (c + 1) % width, FALSE))
    ELSE Grid(width, height,
              Line(width, height, (r + 1) % height, (c + width - 1) % width, TRUE))

\* C8: on a wrapping grid of at least 5 x 5 whose live cells are three consecutive
\* cells of a row or a column, wrapped edge included, the grid differs from the seed
\* after one update() and is the seed again after two: it alternates between the
\* seed and the line across its middle for as long as update() is called.
C8_BlinkerHasPeriodTwo ==
    /\ gen = 1 => cells # seed
    /\ gen = 2 => cells = seed
    /\ gen % 2 = 0 => cells = seed
    /\ gen % 2 = 1 =>
           \E r \in Rows, c \in Cols, horizontal \in BOOLEAN :
               IsLine(r, c, horizontal) /\ cells = Across(r, c, horizontal)

\* two updates of a horizontal line that straddles the wrapped edge of a 5 x 5 grid
C8_Witness ==
    /\ gen = 2
    /\ width = 5 /\ height = 5
    /\ IsLine(0, 4, TRUE)
    /\ last.op = "update"
    /\ last.pre = Across(0, 4, TRUE)
    /\ cells = seed

\* C9: on a bounded grid of at least 2 x 2 whose live cells are a 2 x 2 block, at an
\* edge or in a corner too, every update() leaves the grid as it is: each cell of
\* the block counts exactly 3 live neighbours and every dead cell fewer than 3.
C9_BlockIsStill ==
    /\ cells = seed
    /\ \A r \in Rows, c \in Cols :
           LET n == live_neighbor_count(cells, width, height, wrapping, r, c)
           IN  IF cells[r * width + c] THEN n = 3 ELSE n < 3

\* a block in the corner of a 3 x 3 grid after two updates
C9_Witness ==
    /\ gen >= 2
    /\ width = 3 /\ height = 3
    /\ seed = Grid(3, 3, Block(1, 1))
    /\ last.op = "update"
    /\ cells = seed

Entry(p) == [key |-> p.name, value |-> p]

\* C10: the registry holds at most one pattern per name; insert of a name not present
\* returns none; insert of a name present returns the pattern stored before and
\* replaces it, so that the name then maps to the pattern inserted; the entries of
\* other names stay; get of a name never inserted returns none.
C10_RegistryIsUpsertMap ==
    /\ \A e1 \in patterns, e2 \in patterns : e1.key = e2.key => e1 = e2
    /\ \A e \in patterns : e.key = e.value.name
    /\ last.op = "insert" =>
           LET name == last.arg.name
           IN  /\ name \notin Keys(last.pre) => ~last.ret.some
               /\ name \in Keys(last.pre) =>
                      last.ret.some /\ Entry(last.ret.val) \in last.pre
               /\ {e \in patterns : e.key = name} = {Entry(last.arg)}
               /\ {e \in patterns : e.key # name} = {e \in last.pre : e.key # name}
    /\ last.op = "get" =>
           /\ patterns = last.pre
           /\ last.arg \notin last.inserted => ~last.ret.some
           /\ last.arg \in Keys(patterns) =>
                  last.ret.some /\ {e \in patterns : e.key = last.arg} = {Entry(last.ret.val)}
           /\ last.arg \notin Keys(patterns) => ~last.ret.some

\* an insert that replaced a pattern by another of the same name, beside another name
C10_Witness ==
    /\ last.op = "insert"
    /\ last.ret.some
    /\ last.ret.val.name = last.arg.name
    /\ last.ret.val.cells # last.arg.cells
    /\ \E e \in patterns : e.key # last.arg.name
    /\ Cardinality(patterns) = 2

====
